---- MODULE Spec2Model ----
(***************************************************************************)
(* Model of src/portfolio_analysis.py: class PortfolioAnalysis with its    *)
(* three operations breakpoint, portfolio_formation and                    *)
(* average_portfolio_values.                                               *)
(*                                                                         *)
(* Numbers are integers.  Where the code produces a fraction the model     *)
(* keeps it exact: a percentile is stored multiplied by 100, an average is *)
(* stored as a fraction [num, den] and compared by cross multiplication.   *)
(* NumPy's nan is the record NaN.  NumPy calls behave as NumPy documents   *)
(* them: np.percentile rejects a percentile outside [0, 100], np.mean of   *)
(* an empty array is nan, np.average rejects weights of another shape.     *)
(***************************************************************************)
EXTENDS Integers, Sequences, FiniteSets, TLC

VARIABLES
    dataframe,               \* self.dataframe: [columns, values]
    pc,                      \* position of the current call
    error,                   \* exception that ended the call, or "none"
    feature_percentiles,     \* breakpoint: the argument (ordered dict)
    percentiles_list,        \* breakpoint: the local list of the last feature
    breakpoints_out,         \* breakpoint: the local breakpoints_dict
    breakpoint_ret,          \* breakpoint: the returned mapping, or "none"
    breakpoints_dict,        \* portfolio_formation: the argument (ordered dict)
    breakpoints_combinations,\* portfolio_formation: the local list of tuples
    portfolio_labels,        \* portfolio_formation: the returned table, or "none"
    portfolio_label,         \* average_portfolio_values: label table argument
    outcome,                 \* average_portfolio_values: outcome argument
    weight,                  \* average_portfolio_values: weight argument or NoWeight
    average_outcome,         \* average_portfolio_values: returned vector, or "none"
    HML_average_outcome      \* average_portfolio_values: returned spread, or "none"

vars == <<dataframe, pc, error, feature_percentiles, percentiles_list,
          breakpoints_out, breakpoint_ret, breakpoints_dict,
          breakpoints_combinations, portfolio_labels, portfolio_label,
          outcome, weight, average_outcome, HML_average_outcome>>

bpVars == <<feature_percentiles, percentiles_list, breakpoints_out, breakpoint_ret>>
pfVars == <<breakpoints_dict, breakpoints_combinations, portfolio_labels>>
avVars == <<portfolio_label, outcome, weight, average_outcome, HML_average_outcome>>

------------------------------------------------------------------------------
(* Bounds of the model and the input domains                                *)

MaxRows == 1          \* rows of a dataframe in the multi-characteristic runs
MaxBuckets == 2       \* buckets per characteristic (breakpoints = buckets + 1)
MaxLen == 2           \* length of a percentile list given to breakpoint
MaxChainRows == 3     \* rows of a dataframe with one characteristic
MaxLabelRows == 2     \* rows of a label table given directly to the average
MaxPortfolios == 2    \* columns of a label table given directly to the average

ColumnNames == <<"A", "B", "C">>     \* dataframe columns, in column order
FeatureNames == {"A", "B"}           \* keys of a breakpoint mapping
Values == 0 .. 4                     \* characteristic values, one characteristic
GridValues == {0, 2, 4}              \* characteristic values, several characteristics
BreakpointValues == 1 .. 3           \* breakpoint values, one characteristic
GridBreakpointValues == 1 .. 4       \* breakpoint values, several characteristics
Percentiles == {0 - 10, 0, 50, 100, 110}
Outcomes == {2, 4, 6}
Weights == {0, 1, 2}
Labels == 0 .. 2

------------------------------------------------------------------------------
(* Arithmetic helpers                                                       *)

RECURSIVE SumTo(_, _)
SumTo(f, n) == IF n = 0 THEN 0 ELSE f[n] + SumTo(f, n - 1)

RECURSIVE ProdTo(_, _)
ProdTo(f, n) == IF n = 0 THEN 1 ELSE f[n] * ProdTo(f, n - 1)

BoolToInt(b) == IF b THEN 1 ELSE 0

Max(a, b) == IF a >= b THEN a ELSE b

Range(s) == {s[i] : i \in DOMAIN s}

IsNonDecreasing(s) == \A i \in 1 .. Len(s) - 1 : s[i] <= s[i + 1]

\* the frames PortfolioAnalysis(dataframe) can hold: c columns, n rows
DataFrames(maxRows, maxCols, vals) ==
    UNION {{[columns |-> SubSeq(ColumnNames, 1, c), values |-> v] :
               v \in [1 .. n -> [1 .. c -> vals]]} :
           <<n, c>> \in (1 .. maxRows) \X (1 .. maxCols)}

\* ascending breakpoint sets with 1 .. MaxBuckets buckets over the values vals
IsIncreasing(s) == \A i \in 1 .. Len(s) - 1 : s[i] < s[i + 1]

BreakpointSets(vals, strict) ==
    {s \in UNION {[1 .. len -> vals] : len \in 2 .. MaxBuckets + 1} :
        IF strict THEN IsIncreasing(s) ELSE IsNonDecreasing(s)}

\* ordered mappings feature -> breakpoints with one key
BreakpointDicts1(names, sets) ==
    {<<[feature |-> f, breakpoints |-> s]>> : <<f, s>> \in names \X sets}

\* ordered mappings feature -> breakpoints with two distinct keys
BreakpointDicts2(names, sets) ==
    {<<[feature |-> x[1], breakpoints |-> x[3]], [feature |-> x[2], breakpoints |-> x[4]]>> :
        x \in {y \in names \X names \X sets \X sets : y[1] # y[2]}}

------------------------------------------------------------------------------
(* portfolio_formation                                                      *)

\* one step of itertools.product: result = [x + [y] for x in result for y in pool]
ExtendFirstFastest(result, k) ==
    [e \in 1 .. Len(result) * k |->
        Append(result[((e - 1) % Len(result)) + 1], (e - 1) \div Len(result))]

Extend(result, k) ==
    [e \in 1 .. Len(result) * k |->
        Append(result[((e - 1) \div k) + 1], (e - 1) % k)]

RECURSIVE ProductFrom(_, _)
ProductFrom(result, pools) ==
    IF pools = <<>> THEN result
    ELSE ProductFrom(Extend(result, Head(pools)), Tail(pools))

\* itertools.product(*[range(i) for i in num_breakpoints])
Product(num_breakpoints) == ProductFrom(<< <<>> >>, num_breakpoints)

\* len(breakpoints) - 1 for every value of the mapping
NumBreakpoints(bpd) == [q \in 1 .. Len(bpd) |-> Len(bpd[q].breakpoints) - 1]

\* (value >= start) & (value <= end), with the upper test made strict
InIntervalOpen(value, start, end) == value >= start /\ value < end

\* (value >= start) & (value <= end)
InInterval(value, start, end) == value >= start /\ value <= end

\* NumPy broadcasting of an (n, c) array against an (m,) array
Broadcastable(c, m) == c = m \/ c = 1 \/ m = 1

\* np.sum(... , axis=1) for one row: the number of broadcast columns that pass
TempLabel(row, breakpoints_start, breakpoints_end) ==
    LET c == Len(row)
        m == Len(breakpoints_start)
        passes == [t \in 1 .. Max(c, m) |->
                     BoolToInt(InInterval(row[IF c = 1 THEN 1 ELSE t],
                                          breakpoints_start[IF m = 1 THEN 1 ELSE t],
                                          breakpoints_end[IF m = 1 THEN 1 ELSE t]))]
    IN  SumTo(passes, Max(c, m))

\* the whole call: [status, combinations, labels]
FormationResult(df, bpd) ==
    LET n == Len(df.values)
        c == Len(df.columns)
        m == Len(bpd)
        num_breakpoints == NumBreakpoints(bpd)
        p == ProdTo(num_breakpoints, m)
        combos == Product(num_breakpoints)
        start(i) == [q \in 1 .. m |-> bpd[q].breakpoints[combos[i][q] + 1]]
        end(i) == [q \in 1 .. m |-> bpd[q].breakpoints[combos[i][q] + 2]]
    IN  IF p > 0 /\ ~Broadcastable(c, m)
        THEN [status |-> "ValueError", combinations |-> combos, labels |-> "none"]
        ELSE [status |-> "returned", combinations |-> combos,
              labels |-> [r \in 1 .. n |->
                            [i \in 1 .. p |-> TempLabel(df.values[r], start(i), end(i))]]]

PortfolioFormationOn(dicts) ==
    /\ pc = "idle"
    /\ \E bpd \in dicts :
         LET res == FormationResult(dataframe, bpd)
         IN  /\ breakpoints_dict' = bpd
             /\ breakpoints_combinations' = res.combinations
             /\ portfolio_labels' = res.labels
             /\ pc' = IF res.status = "returned" THEN "formed" ELSE "raised"
             /\ error' = IF res.status = "returned" THEN "none" ELSE res.status
    /\ UNCHANGED <<dataframe, bpVars, avVars>>

\* a call with one or two characteristics, strictly ascending breakpoints
PortfolioFormation ==
    PortfolioFormationOn(
        BreakpointDicts1(FeatureNames, BreakpointSets(GridBreakpointValues, TRUE))
        \cup BreakpointDicts2(FeatureNames, BreakpointSets(GridBreakpointValues, TRUE)))

\* a call with one characteristic, breakpoints ascending with ties allowed
PortfolioFormationUnivariate ==
    PortfolioFormationOn(
        BreakpointDicts1({ColumnNames[1]}, BreakpointSets(BreakpointValues, FALSE)))

\* weight=None
NoWeight == [given |-> FALSE, values |-> <<>>]

NoBreakpointCall ==
    /\ feature_percentiles = <<>>
    /\ percentiles_list = <<>>
    /\ breakpoints_out = <<>>
    /\ breakpoint_ret = "none"

NoFormationCall ==
    /\ breakpoints_dict = <<>>
    /\ breakpoints_combinations = <<>>
    /\ portfolio_labels = "none"

NoAverageCall ==
    /\ portfolio_label = "none"
    /\ outcome = <<>>
    /\ weight = NoWeight
    /\ average_outcome = "none"
    /\ HML_average_outcome = "none"

InitFormation ==
    /\ dataframe \in DataFrames(MaxRows, Len(ColumnNames), GridValues)
    /\ pc = "idle"
    /\ error = "none"
    /\ NoBreakpointCall
    /\ NoFormationCall
    /\ NoAverageCall

NextFormation == PortfolioFormation

SpecFormation == InitFormation /\ [][NextFormation]_vars

InitUnivariate ==
    /\ dataframe \in DataFrames(MaxChainRows, 1, Values)
    /\ pc = "idle"
    /\ error = "none"
    /\ NoBreakpointCall
    /\ NoFormationCall
    /\ NoAverageCall

NextUnivariate == PortfolioFormationUnivariate

SpecUnivariate == InitUnivariate /\ [][NextUnivariate]_vars

------------------------------------------------------------------------------
(* Properties of portfolio_formation                                        *)

n_rows == Len(dataframe.values)
n_cols == Len(dataframe.columns)
n_features == Len(breakpoints_dict)
called == pc # "idle"

\* k_i * ... * k_m
RECURSIVE ProdFrom(_, _)
ProdFrom(ks, i) == IF i > Len(ks) THEN 1 ELSE ks[i] * ProdFrom(ks, i + 1)

\* the 0-based bucket index of characteristic i in the j-th combination (j 0-based)
BucketIndex(j, i) ==
    LET ks == NumBreakpoints(breakpoints_dict)
    IN  (j \div ProdFrom(ks, i + 1)) % ks[i]

\* row r lies in the closed interval that combination j assigns to the q-th key,
\* reading the dataframe column at position col
LiesIn(r, col, q, j) ==
    LET bp == breakpoints_dict[q].breakpoints
        b == BucketIndex(j, q)
    IN  bp[b + 1] <= dataframe.values[r][col] /\ dataframe.values[r][col] <= bp[b + 2]

\* position of the dataframe column named f
ColumnOf(f) == CHOOSE t \in 1 .. n_cols : dataframe.columns[t] = f

\* C1: with m >= 2 characteristics, the entry of row r in column j is nonzero
\* only if the row lies in the interval of combination j for every characteristic.
C1_NonzeroOnlyIfAll ==
    (pc = "formed" /\ n_features >= 2 /\ n_cols = n_features) =>
        \A r \in 1 .. n_rows : \A j \in 1 .. Len(portfolio_labels[r]) :
            portfolio_labels[r][j] # 0 =>
                \A q \in 1 .. n_features : LiesIn(r, q, q, j - 1)

\* C7: the table has n rows and P = k_1 * ... * k_m columns, and column j tests
\* the combination whose bucket indices are the mixed-radix digits of j, the last
\* characteristic varying fastest.
C7_GridShapeAndOrder ==
    LET ks == NumBreakpoints(breakpoints_dict)
        P == ProdFrom(ks, 1)
    IN  /\ (called /\ n_cols = n_features) => pc = "formed"
        /\ pc = "formed" =>
            /\ Len(portfolio_labels) = n_rows
            /\ \A r \in 1 .. n_rows : Len(portfolio_labels[r]) = P
            /\ Len(breakpoints_combinations) = P
            /\ \A j \in 0 .. P - 1 :
                 /\ \A i \in 1 .. n_features :
                      /\ breakpoints_combinations[j + 1][i] \in 0 .. ks[i] - 1
                      /\ breakpoints_combinations[j + 1][i] = BucketIndex(j, i)
                 /\ j = SumTo([i \in 1 .. n_features |->
                                 breakpoints_combinations[j + 1][i] * ProdFrom(ks, i + 1)],
                              n_features)
                 /\ n_cols = n_features =>
                      \A r \in 1 .. n_rows :
                          portfolio_labels[r][j + 1] =
                              Cardinality({q \in 1 .. n_features : LiesIn(r, q, q, j)})

C7_Witness ==
    /\ pc = "formed"
    /\ n_features = 2
    /\ n_cols = 2
    /\ NumBreakpoints(breakpoints_dict) = <<2, 2>>
    /\ breakpoints_combinations[2] = <<0, 1>>
    /\ \E r \in 1 .. n_rows : portfolio_labels[r] = <<1, 2, 0, 1>>

\* C9: with one characteristic, a row within [breakpoints[0], breakpoints[k]] has
\* a nonzero entry in some column, a row has nonzero entries in two or more
\* columns only if its value equals an interior breakpoint, and a row outside
\* the range has 0 in every column.
C9_UnivariateCover ==
    called =>
        /\ pc = "formed"
        /\ \A r \in 1 .. n_rows :
             LET v == dataframe.values[r][1]
                 bp == breakpoints_dict[1].breakpoints
                 k == Len(bp) - 1
                 hits == {j \in 1 .. Len(portfolio_labels[r]) : portfolio_labels[r][j] # 0}
             IN  /\ Len(portfolio_labels[r]) = k
                 /\ (bp[1] <= v /\ v <= bp[k + 1]) => hits # {}
                 /\ Cardinality(hits) >= 2 => \E t \in 2 .. k : v = bp[t]
                 /\ (v < bp[1] \/ v > bp[k + 1]) => hits = {}

C9_Witness ==
    /\ pc = "formed"
    /\ n_rows >= 3
    /\ Len(breakpoints_dict[1].breakpoints) = 3
    /\ IsIncreasing(breakpoints_dict[1].breakpoints)
    /\ \E r \in 1 .. n_rows : portfolio_labels[r] = <<1, 1>>
    /\ \E r \in 1 .. n_rows : portfolio_labels[r] = <<0, 0>>
    /\ \E r \in 1 .. n_rows :
         /\ portfolio_labels[r] = <<0, 1>>
         /\ dataframe.values[r][1] = breakpoints_dict[1].breakpoints[3]

\* C10: the test for characteristic f reads the dataframe column named f, so
\* the call returns the by-name table whatever the key order of the mapping and
\* whatever other columns the dataframe has.
C10_ComparesByName ==
    (called /\ \A q \in 1 .. n_features :
                  breakpoints_dict[q].feature \in Range(dataframe.columns)) =>
        /\ pc = "formed"
        /\ \A r \in 1 .. n_rows : \A j \in 1 .. Len(portfolio_labels[r]) :
             portfolio_labels[r][j] =
                 Cardinality({q \in 1 .. n_features :
                                 LiesIn(r, ColumnOf(breakpoints_dict[q].feature), q, j - 1)})

------------------------------------------------------------------------------
(* breakpoint                                                               *)

\* the dataframes the breakpoint runs start from
BreakpointFrames ==
    {[columns |-> <<"A", "B">>, values |-> << <<1, 4>>, <<3, 0>> >>],
     [columns |-> <<"A">>, values |-> << <<2>>, <<0>>, <<4>> >>]}

\* the values a caller passes for one feature: a list, or something else
\* ([is_list |-> FALSE] stands for any value that is not a list)
PercentileLists ==
    {[is_list |-> TRUE, items |-> l] :
        l \in UNION {[1 .. len -> Percentiles] : len \in 0 .. MaxLen}}
    \cup {[is_list |-> FALSE, items |-> <<>>]}

\* the ordered dicts a caller passes: one or two distinct features
FeaturePercentiles ==
    {<<[feature |-> f, percentiles |-> l]>> : <<f, l>> \in FeatureNames \X PercentileLists}
    \cup
    {<<[feature |-> x[1], percentiles |-> x[3]], [feature |-> x[2], percentiles |-> x[4]]>> :
        x \in {y \in FeatureNames \X FeatureNames \X PercentileLists \X PercentileLists :
                  y[1] # y[2]}}

\* insert x into the ascending sequence s
RECURSIVE Insert(_, _)
Insert(x, s) ==
    IF s = <<>> THEN <<x>>
    ELSE IF x <= Head(s) THEN <<x>> \o s
    ELSE <<Head(s)>> \o Insert(x, Tail(s))

\* sorted(s)
RECURSIVE Sorted(_)
Sorted(s) == IF s = <<>> THEN <<>> ELSE Insert(Head(s), Sorted(Tail(s)))

\* lines 40-44 for a non-empty list: sort, insert 0 in front, append 100
Normalize(list) ==
    LET s == Sorted(list)
        a == IF s[1] # 0 THEN <<0>> \o s ELSE s
    IN  IF a[Len(a)] # 100 THEN Append(a, 100) ELSE a

\* the values of the dataframe column named f, in row order
ColumnValues(df, f) ==
    LET t == CHOOSE t \in 1 .. Len(df.columns) : df.columns[t] = f
    IN  [r \in 1 .. Len(df.values) |-> df.values[r][t]]

\* linear interpolation between order statistics, times 100
Interpolate100(a, q) ==
    LET n == Len(a)
        pos == q * (n - 1)
        lo == pos \div 100
        hi == IF lo + 2 <= n THEN lo + 2 ELSE n
    IN  a[lo + 1] * 100 + (pos % 100) * (a[hi] - a[lo + 1])

\* np.percentile that clamps a percentile into [0, 100] instead of rejecting it
NpPercentileClamped(a, qs) ==
    [raised |-> FALSE,
     values |-> [i \in 1 .. Len(qs) |->
                   Interpolate100(Sorted(a), IF qs[i] < 0 THEN 0
                                             ELSE IF qs[i] > 100 THEN 100 ELSE qs[i])]]

\* np.percentile(a, qs): raises when a percentile is outside [0, 100]
NpPercentile(a, qs) ==
    IF \E i \in 1 .. Len(qs) : qs[i] < 0 \/ qs[i] > 100
    THEN [raised |-> TRUE, values |-> <<>>]
    ELSE [raised |-> FALSE,
          values |-> [i \in 1 .. Len(qs) |-> Interpolate100(Sorted(a), qs[i])]]

BreakpointCall ==
    /\ pc = "idle"
    /\ \E fp \in FeaturePercentiles : feature_percentiles' = fp
    /\ percentiles_list' = <<>>
    /\ breakpoints_out' = <<>>
    /\ breakpoint_ret' = "none"
    /\ pc' = "bp_loop"
    /\ UNCHANGED <<dataframe, error, pfVars, avVars>>

\* one pass of the for loop; an exception ends the call
BreakpointIteration ==
    /\ pc = "bp_loop"
    /\ Len(breakpoints_out) < Len(feature_percentiles)
    /\ LET item == feature_percentiles[Len(breakpoints_out) + 1]
           given == item.percentiles.items
           raise(e, list) ==
               /\ pc' = "raised"
               /\ error' = e
               /\ percentiles_list' = list
               /\ UNCHANGED breakpoints_out
       IN  IF ~item.percentiles.is_list THEN raise("ValueError", percentiles_list)
           ELSE IF given = <<>> THEN raise("IndexError", <<>>)
           ELSE IF item.feature \notin Range(dataframe.columns)
                THEN raise("KeyError", Normalize(given))
           ELSE LET res == NpPercentile(ColumnValues(dataframe, item.feature),
                                           Normalize(given))
                IN  IF res.raised THEN raise("ValueError", Normalize(given))
                    ELSE /\ percentiles_list' = Normalize(given)
                         /\ breakpoints_out' =
                                Append(breakpoints_out,
                                       [feature |-> item.feature, breakpoints |-> res.values])
                         /\ UNCHANGED <<pc, error>>
    /\ UNCHANGED <<dataframe, feature_percentiles, breakpoint_ret, pfVars, avVars>>

BreakpointReturn ==
    /\ pc = "bp_loop"
    /\ Len(breakpoints_out) = Len(feature_percentiles)
    /\ breakpoint_ret' = breakpoints_out
    /\ pc' = "bp_returned"
    /\ UNCHANGED <<dataframe, error, feature_percentiles, percentiles_list,
                   breakpoints_out, pfVars, avVars>>

InitBreakpoint ==
    /\ dataframe \in BreakpointFrames
    /\ pc = "idle"
    /\ error = "none"
    /\ NoBreakpointCall
    /\ NoFormationCall
    /\ NoAverageCall

NextBreakpoint == BreakpointCall \/ BreakpointIteration \/ BreakpointReturn

SpecBreakpoint == InitBreakpoint /\ [][NextBreakpoint]_vars

------------------------------------------------------------------------------
(* Properties of breakpoint                                                 *)

Count(s, v) == Cardinality({i \in 1 .. Len(s) : s[i] = v})

OutOfRange(l) == l.is_list /\ \E i \in 1 .. Len(l.items) : l.items[i] < 0 \/ l.items[i] > 100

\* C5: for a non-empty list with all values in [0, 100], the list the
\* percentiles are evaluated at is ascending, starts with 0, ends with 100, has
\* exactly one 0 and one 100, and holds every other given value unchanged.
C5_NormalizedList ==
    (pc \in {"bp_loop", "bp_returned"} /\ Len(breakpoints_out) >= 1) =>
        LET given == feature_percentiles[Len(breakpoints_out)].percentiles.items
            L == percentiles_list
        IN  /\ IsNonDecreasing(L)
            /\ L[1] = 0
            /\ L[Len(L)] = 100
            /\ Count(L, 0) = 1
            /\ Count(L, 100) = 1
            /\ \A v \in Percentiles \ {0, 100} : Count(L, v) = Count(given, v)

\* C6: when some feature's list holds a value below 0 or above 100 the call
\* ends in an error and returns no mapping, whatever was processed before.
C6_OutOfRangeRaises ==
    (\E q \in 1 .. Len(feature_percentiles) :
        OutOfRange(feature_percentiles[q].percentiles)) =>
        /\ pc \in {"bp_loop", "raised"}
        /\ breakpoint_ret = "none"
        /\ (pc = "bp_loop" => Len(breakpoints_out) < Len(feature_percentiles))

C6_Witness ==
    /\ pc = "raised"
    /\ error = "ValueError"
    /\ Len(feature_percentiles) = 2
    /\ Len(breakpoints_out) = 1
    /\ ~OutOfRange(feature_percentiles[1].percentiles)
    /\ feature_percentiles[2].percentiles.items = <<50, 110>>
    /\ percentiles_list = <<0, 50, 110, 100>>
    /\ breakpoint_ret = "none"

------------------------------------------------------------------------------
(* average_portfolio_values                                                 *)

\* an average: NumPy's nan, or the exact fraction num / den
NaN == [nan |-> TRUE, num |-> 0, den |-> 1]
Fraction(a, b) == [nan |-> FALSE, num |-> a, den |-> b]

\* a - b on averages; nan propagates
Minus(a, b) ==
    IF a.nan \/ b.nan THEN NaN
    ELSE Fraction(a.num * b.den - b.num * a.den, a.den * b.den)

\* sum of f[r] over the rows r of the set rows
RECURSIVE SumOver(_, _)
SumOver(f, rows) ==
    IF rows = {} THEN 0
    ELSE LET r == CHOOSE r \in rows : TRUE
         IN  f[r] + SumOver(f, rows \ {r})

\* np.where(portfolio_label[:, i] == i+1), for the 1-based column i
Selected(labels, i) == {r \in 1 .. Len(labels) : labels[r][i] = i}

\* np.mean(outcome[rows]): nan for an empty selection
NpMean(out, rows) ==
    IF rows = {} THEN [raised |-> "none", value |-> NaN]
    ELSE [raised |-> "none", value |-> Fraction(SumOver(out, rows), Cardinality(rows))]

\* np.average(outcome[rows], weights=w): w is the whole weight array, so the
\* shapes differ unless every row is selected
NpAverage(out, rows, w) ==
    IF Cardinality(rows) # Len(w) THEN [raised |-> "TypeError", value |-> NaN]
    ELSE IF SumTo(w, Len(w)) = 0 THEN [raised |-> "ZeroDivisionError", value |-> NaN]
    ELSE [raised |-> "none",
          value |-> Fraction(SumOver([r \in 1 .. Len(w) |-> w[r] * out[r]], rows),
                             SumTo(w, Len(w)))]

\* the body of the for loop for the 1-based column i
ColumnAverage(labels, out, w, i) ==
    IF ~w.given THEN NpMean(out, Selected(labels, i))
    ELSE NpAverage(out, Selected(labels, i), w.values)

\* the whole call: [raised, average_outcome, HML]
AverageResult(labels, out, w) ==
    LET p == Len(labels[1])
        cols == [i \in 1 .. p |-> ColumnAverage(labels, out, w, i)]
        failed == {i \in 1 .. p : cols[i].raised # "none"}
        first == CHOOSE i \in failed : \A j \in failed : i <= j
        avg == [i \in 1 .. p |-> cols[i].value]
    IN  IF failed # {}
        THEN [raised |-> cols[first].raised, average_outcome |-> "none", HML |-> "none"]
        ELSE [raised |-> "none", average_outcome |-> avg, HML |-> Minus(avg[p], avg[1])]

AverageOn(labels, out, w) ==
    LET res == AverageResult(labels, out, w)
    IN  /\ portfolio_label' = labels
        /\ outcome' = out
        /\ weight' = w
        /\ average_outcome' = res.average_outcome
        /\ HML_average_outcome' = res.HML
        /\ pc' = IF res.raised = "none" THEN "averaged" ELSE "raised"
        /\ error' = res.raised

\* the label tables a caller can pass: n rows, p columns
LabelTables ==
    UNION {[1 .. n -> [1 .. p -> Labels]] :
           <<n, p>> \in (1 .. MaxLabelRows) \X (1 .. MaxPortfolios)}

WeightArgs(n) == {NoWeight} \cup {[given |-> TRUE, values |-> w] : w \in [1 .. n -> Weights]}

\* a call on any label table
AveragePortfolioValues ==
    /\ pc = "idle"
    /\ \E labels \in LabelTables :
         \E out \in [1 .. Len(labels) -> Outcomes] :
           \E w \in WeightArgs(Len(labels)) : AverageOn(labels, out, w)
    /\ UNCHANGED <<dataframe, bpVars, pfVars>>

\* a call on the table portfolio_formation returned, with weight=None
AverageOfFormed ==
    /\ pc = "formed"
    /\ \E out \in [1 .. Len(portfolio_labels) -> Outcomes] :
         AverageOn(portfolio_labels, out, NoWeight)
    /\ UNCHANGED <<dataframe, bpVars, pfVars>>

InitAverage ==
    /\ dataframe \in DataFrames(1, 1, Values)
    /\ pc = "idle"
    /\ error = "none"
    /\ NoBreakpointCall
    /\ NoFormationCall
    /\ NoAverageCall

NextAverage == AveragePortfolioValues

SpecAverage == InitAverage /\ [][NextAverage]_vars

NextChain == PortfolioFormationUnivariate \/ AverageOfFormed

SpecChain == InitUnivariate /\ [][NextChain]_vars

------------------------------------------------------------------------------
(* Properties of average_portfolio_values                                   *)

n_labels == Len(portfolio_label)
n_portfolios == Len(portfolio_label[1])
average_called == pc \in {"averaged", "raised"}

\* the average x is the number a / b
IsNumber(x, a, b) == ~x.nan /\ x.num * b = a * x.den

\* C2: one characteristic, k >= 2 buckets each holding an observation, weight
\* None: entry b of the average vector is the mean outcome of the rows whose
\* value lies in [breakpoints[b-1], breakpoints[b]].
C2_ChainAveragesPerBucket ==
    LET bp == breakpoints_dict[1].breakpoints
        k == Len(bp) - 1
        bucket(b) == {r \in 1 .. n_rows :
                        bp[b] <= dataframe.values[r][1] /\ dataframe.values[r][1] <= bp[b + 1]}
    IN  (average_called /\ k >= 2 /\ \A b \in 1 .. k : bucket(b) # {}) =>
            /\ pc = "averaged"
            /\ Len(average_outcome) = k
            /\ \A b \in 1 .. k :
                 IsNumber(average_outcome[b], SumOver(outcome, bucket(b)),
                          Cardinality(bucket(b)))

\* C3: with a weight array, entry i is sum(weight*outcome) / sum(weight) over
\* the rows whose label in column i is i+1, whichever rows those are.
C3_WeightedAverage ==
    LET sel(i) == Selected(portfolio_label, i)
        wsum(i) == SumOver(weight.values, sel(i))
    IN  (average_called /\ weight.given /\ \A i \in 1 .. n_portfolios : wsum(i) # 0) =>
            /\ pc = "averaged"
            /\ \A i \in 1 .. n_portfolios :
                 IsNumber(average_outcome[i],
                          SumOver([r \in 1 .. n_labels |-> weight.values[r] * outcome[r]],
                                  sel(i)),
                          wsum(i))

\* C4: when some column i has no row labelled i+1 the call ends in an error
\* and returns neither an average vector nor an HML value.
C4_EmptyPortfolioRaises ==
    (average_called /\ \E i \in 1 .. n_portfolios : Selected(portfolio_label, i) = {}) =>
        pc = "raised"

\* C8: the HML value is the last entry of the average vector minus the first,
\* hence 0 for a table with one column.
C8_HMLIsLastMinusFirst ==
    pc = "averaged" =>
        LET high == average_outcome[n_portfolios]
            low == average_outcome[1]
        IN  /\ ~high.nan /\ ~low.nan
            /\ IsNumber(HML_average_outcome,
                        high.num * low.den - low.num * high.den, high.den * low.den)
            /\ n_portfolios = 1 => IsNumber(HML_average_outcome, 0, 1)

====
